---- MODULE Spec2Model ----
(***************************************************************************)
(* A model of the conduit proxy's latency histogram                        *)
(* (proxy/src/telemetry/metrics/latency.rs) and of its outbound router     *)
(* (proxy/src/outbound.rs).                                                *)
(*                                                                         *)
(* TLC's integers are 32-bit signed, so a Rust u32 is kept as a pair of    *)
(* 16-bit limbs <<hi, lo>> and a u64 as a pair of u32 <<hi32, lo32>>; the  *)
(* arithmetic below works limb by limb and keeps the Rust widths.          *)
(***************************************************************************)
EXTENDS Integers, Sequences, FiniteSets, TLC

\* ------------------------------------------------------------------------
\* Fixed-width unsigned integers
\* ------------------------------------------------------------------------

Base == 2 ^ 16

\* The u32 with value n, for a small n (n < 2^31) written in the source.
FromNat(n) == <<n \div Base, n % Base>>

U32_ZERO == <<0, 0>>

\* std::u32::MAX
U32_MAX == <<Base - 1, Base - 1>>

\* a <= b, a < b on u32 (derive(Ord, PartialOrd) on Latency(u32))
Leq(a, b) == a[1] < b[1] \/ (a[1] = b[1] /\ a[2] <= b[2])
Less(a, b) == Leq(a, b) /\ a # b

None == <<"None">>
Some(v) == <<"Some", v>>
Unwrap(o) == o[2]

\* u32::checked_mul by a small factor k: None on overflow.
checked_mul(a, k) ==
    LET p0 == a[2] * k
        p1 == a[1] * k + (p0 \div Base)
    IN  IF p1 >= Base THEN None ELSE Some(<<p1, p0 % Base>>)

\* u32::checked_add: None on overflow.
checked_add(a, b) ==
    LET s0 == a[2] + b[2]
        s1 == a[1] + b[1] + (s0 \div Base)
    IN  IF s1 >= Base THEN None ELSE Some(<<s1, s0 % Base>>)

\* u32 addition as `+=` performs it when overflow checks are off: modulo 2^32.
wrapping_add(a, b) ==
    LET s0 == a[2] + b[2]
        s1 == a[1] + b[1] + (s0 \div Base)
    IN  <<s1 % Base, s0 % Base>>

\* ------------------------------------------------------------------------
\* latency.rs: buckets
\* ------------------------------------------------------------------------

NUM_BUCKETS == 26

SEC_TO_MS == 1000

MS_TO_NS == 1000000

Latency(n) == FromNat(n)

Buckets == 0 .. (NUM_BUCKETS - 1)

\* The array literal, in source order; element i of the array is at i + 1.
BUCKET_MAX_VALUES ==
    [i \in Buckets |->
        << Latency(1), Latency(2), Latency(3), Latency(4), Latency(5),
           Latency(10), Latency(20), Latency(30), Latency(40), Latency(50),
           Latency(100), Latency(200), Latency(300), Latency(400), Latency(500),
           Latency(1000), Latency(2000), Latency(3000), Latency(4000), Latency(0),
           Latency(10000), Latency(20000), Latency(30000), Latency(40000),
           Latency(50000),
           U32_MAX >>[i + 1]]

\* position with the comparison `<` in place of `<=`.
position_exclusive(measurement) ==
    LET hits == {i \in Buckets : Less(measurement, BUCKET_MAX_VALUES[i])}
    IN  IF hits = {} THEN None
        ELSE Some(CHOOSE i \in hits : \A j \in hits : i <= j)

\* BUCKET_MAX_VALUES.iter().position(|max| &measurement <= max)
position(measurement) ==
    LET hits == {i \in Buckets : Leq(measurement, BUCKET_MAX_VALUES[i])}
    IN  IF hits = {} THEN None
        ELSE Some(CHOOSE i \in hits : \A j \in hits : i <= j)

\* ------------------------------------------------------------------------
\* latency.rs: Duration -> Latency
\* ------------------------------------------------------------------------

\* A std::time::Duration: whole seconds (u64, as <<hi32, lo32>>) and
\* sub-second nanoseconds (u32, always below 10^9).
Duration(secs, nanos) == [secs |-> secs, nanos |-> nanos]

\* The conversion with `as_ms + subsec_ms` in place of checked_add.
LatencyFromDuration_unchecked_add(dur) ==
    LET secs64 == dur.secs
        secs == IF secs64[1] # U32_ZERO \/ secs64[2] = U32_MAX
                THEN None
                ELSE Some(secs64[2])
        t1 == IF secs = None THEN None
              ELSE checked_mul(Unwrap(secs), SEC_TO_MS)
    IN  IF t1 = None THEN U32_MAX
        ELSE wrapping_add(Unwrap(t1), FromNat(dur.nanos \div MS_TO_NS))

\* impl From<Duration> for Latency
LatencyFromDuration(dur) ==
    LET secs64 == dur.secs
        \* checked conversion u64 -> u32: secs >= u64::from(u32::MAX) is None
        secs == IF secs64[1] # U32_ZERO \/ secs64[2] = U32_MAX
                THEN None
                ELSE Some(secs64[2])
        t1 == IF secs = None THEN None
              ELSE checked_mul(Unwrap(secs), SEC_TO_MS)
        t2 == IF t1 = None THEN None
              ELSE LET subsec_ms == dur.nanos \div MS_TO_NS
                   IN  checked_add(Unwrap(t1), FromNat(subsec_ms))
    IN  IF t2 = None THEN U32_MAX ELSE Unwrap(t2)

\* ------------------------------------------------------------------------
\* latency.rs: Histogram
\* ------------------------------------------------------------------------

\* Histogram::new(): Histogram([0; NUM_BUCKETS])
HistogramNew == [i \in Buckets |-> U32_ZERO]

\* `self.0[i] += 1` on a u32 counter: the outcomes a build can produce.
\* At u32::MAX the addition overflows: a build with overflow checks panics
\* before the store, a build without them stores the wrapped value.
AddOne(count) ==
    IF checked_add(count, FromNat(1)) # None
    THEN {[status |-> "ok", count |-> Unwrap(checked_add(count, FromNat(1)))]}
    ELSE {[status |-> "panic_overflow", count |-> count],
          [status |-> "ok", count |-> wrapping_add(count, FromNat(1))]}

\* Histogram::observe, after `measurement.into()`: the bucket is looked up
\* (`expect` panics when there is none) and its counter incremented.
observe(h, measurement) ==
    LET p == position(measurement)
    IN  IF p = None
        THEN {[status |-> "panic_expect", idx |-> p, hist |-> h]}
        ELSE {[status |-> r.status, idx |-> p,
               hist |-> [h EXCEPT ![Unwrap(p)] = r.count]] :
                  r \in AddOne(h[Unwrap(p)])}

\* ------------------------------------------------------------------------
\* outbound.rs: destinations, routing keys, the discovery adapter
\* ------------------------------------------------------------------------

MAX_IN_FLIGHT == 10000

\* transport::DnsNameAndPort { host, port }
DnsNameAndPort(host, port) == [host |-> host, port |-> port]

\* std::net::SocketAddr, as SocketAddr::from((ip, port)) builds it
SocketAddr(ip, port) == [ip |-> ip, port |-> port]

\* SocketAddr values and DnsNameAndPort values of the explored requests.
Addrs == {SocketAddr("10.1.1.1", 80), SocketAddr("10.1.1.2", 80)}

Names == {DnsNameAndPort("web", 80), DnsNameAndPort("web", 8080)}

\* enum Destination
Hostname(name) == <<"Hostname", name>>

ImplicitOriginalDst(addr) == <<"ImplicitOriginalDst", addr>>

Destinations ==
    {Hostname(n) : n \in Names} \cup {ImplicitOriginalDst(a) : a \in Addrs}

\* bind::Protocol, as detected per request
Protocols == {"Http1", "Http2"}

\* Recognize::Key = (Destination, Protocol)
Keys == Destinations \X Protocols

\* An equality on Destination that holds for Hostname values only.
DestinationEq_hostname_only(d1, d2) == d1[1] = "Hostname" /\ d1 = d2

\* derive(PartialEq, Eq, Hash) on Destination
DestinationEq(d1, d2) == d1 = d2

\* Key equality that compares the destinations only.
KeyEq_ignores_protocol(k1, k2) == DestinationEq(k1[1], k2[1])

\* Equality of two routing keys (a tuple of Destination and Protocol).
KeyEq(k1, k2) == DestinationEq(k1[1], k2[1]) /\ k1[2] = k2[2]

\* futures::Poll<Change<SocketAddr, Service>, BindError> values
NotReady == <<"NotReady">>

Insert(addr) == <<"Insert", addr>>

Remove(addr) == <<"Remove", addr>>

\* enum BindError
BindErrorExternal(addr) == <<"Err", "External", addr>>

BindErrorInternal == <<"Err", "Internal">>

IsErr(res) == res[1] = "Err"

IsChange(res) == res[1] \in {"Insert", "Remove"}

\* enum Discovery
NamedSvc == [kind |-> "NamedSvc", opt |-> None]

DiscoveryImplicitOriginalDst(opt) == [kind |-> "ImplicitOriginalDst", opt |-> opt]

\* Discovery::poll with every subscription result but an error dropped
\* (reported as not-ready).
DiscoveryPoll_drops_changes(d, inner) ==
    IF d.kind = "NamedSvc"
    THEN [discover |-> d,
          result |-> IF IsErr(inner) THEN BindErrorInternal ELSE NotReady]
    ELSE IF d.opt # None
         THEN [discover |-> [d EXCEPT !.opt = None],
               result |-> IF IsErr(inner)
                          THEN BindErrorExternal(Unwrap(d.opt))
                          ELSE Insert(Unwrap(d.opt))]
         ELSE [discover |-> d, result |-> NotReady]

\* Discovery::poll reporting the address although bind.bind failed.
DiscoveryPoll_insert_on_failure(d, inner) ==
    IF d.kind = "NamedSvc"
    THEN [discover |-> d,
          result |-> IF IsErr(inner) THEN BindErrorInternal ELSE inner]
    ELSE IF d.opt # None
         THEN [discover |-> [d EXCEPT !.opt = None],
               result |-> Insert(Unwrap(d.opt))]
         ELSE [discover |-> d, result |-> NotReady]

\* Discovery::poll clearing the pending slot only when bind.bind succeeds.
DiscoveryPoll_retry_on_failure(d, inner) ==
    IF d.kind = "NamedSvc"
    THEN [discover |-> d,
          result |-> IF IsErr(inner) THEN BindErrorInternal ELSE inner]
    ELSE IF d.opt # None
         THEN IF IsErr(inner)
              THEN [discover |-> d,
                    result |-> BindErrorExternal(Unwrap(d.opt))]
              ELSE [discover |-> [d EXCEPT !.opt = None],
                    result |-> Insert(Unwrap(d.opt))]
         ELSE [discover |-> d, result |-> NotReady]

\* Discovery::poll handing the subscription's error through as it is.
DiscoveryPoll_error_unmapped(d, inner) ==
    IF d.kind = "NamedSvc"
    THEN [discover |-> d, result |-> inner]
    ELSE IF d.opt # None
         THEN [discover |-> [d EXCEPT !.opt = None],
               result |-> IF IsErr(inner)
                          THEN BindErrorExternal(Unwrap(d.opt))
                          ELSE Insert(Unwrap(d.opt))]
         ELSE [discover |-> d, result |-> NotReady]

\* Discovery::poll with the pending slot read, not taken.
DiscoveryPoll_keeps_slot(d, inner) ==
    IF d.kind = "NamedSvc"
    THEN [discover |-> d,
          result |-> IF IsErr(inner) THEN BindErrorInternal ELSE inner]
    ELSE IF d.opt # None
         THEN [discover |-> d,
               result |-> IF IsErr(inner)
                          THEN BindErrorExternal(Unwrap(d.opt))
                          ELSE Insert(Unwrap(d.opt))]
         ELSE [discover |-> d, result |-> NotReady]

\* Discovery::poll.  `inner` is what the wrapped call returns: for NamedSvc
\* the subscription's poll (not-ready, a change, or <<"Err", cause>>), for
\* ImplicitOriginalDst the outcome of bind.bind(&addr) (<<"Ok">> or
\* <<"Err", cause>>), consulted only while the slot is pending.  Returns
\* the adapter after the call and the poll's result.
DiscoveryPoll(d, inner) ==
    IF d.kind = "NamedSvc"
    THEN [discover |-> d,
          result |-> IF IsErr(inner) THEN BindErrorInternal ELSE inner]
    ELSE IF d.opt # None
         THEN [discover |-> [d EXCEPT !.opt = None],
               result |-> IF IsErr(inner)
                          THEN BindErrorExternal(Unwrap(d.opt))
                          ELSE Insert(Unwrap(d.opt))]
         ELSE [discover |-> d, result |-> NotReady]

\* ------------------------------------------------------------------------
\* outbound.rs: bind_service
\* ------------------------------------------------------------------------

Ok(v) == <<"Ok", v>>

Err(e) == <<"Err", e>>

\* The stack bind_service returns, outermost layer first:
\*   InFlightLimit (max, curr) > Timeout (timeout) > Buffer (buffer, queue)
\*     > Balance (choose, ready) > WithPeakEwma > Discovery (discover)
Stack(resolve, max) ==
    [discover |-> resolve,  \* the Discovery adapter the balancer polls
     choose |-> "PowerOfTwoChoices",  \* Balance::p2c(loaded)
     ready |-> {},          \* Balance: addresses of its endpoint set
     buffer |-> TRUE,       \* Buffer::new(balance, executor)
     queue |-> <<>>,        \* Buffer: requests waiting for the worker
     timeout |-> TRUE,      \* Timeout::new(buffer, self.bind_timeout)
     max |-> max,           \* InFlightLimit::new(timeout, max)
     curr |-> 0]            \* InFlightLimit: slots in use

\* bind_service with a cap one above MAX_IN_FLIGHT.
bind_service_cap_off_by_one(key, spawn_ok) ==
    IF ~spawn_ok THEN Err("BufferSpawnError::Outbound")
    ELSE Ok(Stack(IF key[1][1] = "Hostname" THEN NamedSvc
                  ELSE DiscoveryImplicitOriginalDst(Some(key[1][2])),
                  MAX_IN_FLIGHT + 1))

\* bind_service without the Timeout layer.
bind_service_no_timeout(key, spawn_ok) ==
    IF ~spawn_ok THEN Err("BufferSpawnError::Outbound")
    ELSE Ok([Stack(IF key[1][1] = "Hostname" THEN NamedSvc
                   ELSE DiscoveryImplicitOriginalDst(Some(key[1][2])),
                   MAX_IN_FLIGHT) EXCEPT !.timeout = FALSE])

\* bind_service with a balancer that takes the first candidate sampled.
bind_service_first_sampled(key, spawn_ok) ==
    IF ~spawn_ok THEN Err("BufferSpawnError::Outbound")
    ELSE Ok([Stack(IF key[1][1] = "Hostname" THEN NamedSvc
                   ELSE DiscoveryImplicitOriginalDst(Some(key[1][2])),
                   MAX_IN_FLIGHT) EXCEPT !.choose = "First"])

\* bind_service without the Buffer layer.
bind_service_no_buffer(key, spawn_ok) ==
    IF ~spawn_ok THEN Err("BufferSpawnError::Outbound")
    ELSE Ok([Stack(IF key[1][1] = "Hostname" THEN NamedSvc
                   ELSE DiscoveryImplicitOriginalDst(Some(key[1][2])),
                   MAX_IN_FLIGHT) EXCEPT !.buffer = FALSE])

\* bind_service constructing the endpoint of an ImplicitOriginalDst key
\* itself and handing it to the balancer.
bind_service_eager_endpoint(key, spawn_ok) ==
    IF ~spawn_ok THEN Err("BufferSpawnError::Outbound")
    ELSE IF key[1][1] = "Hostname" THEN Ok(Stack(NamedSvc, MAX_IN_FLIGHT))
    ELSE Ok([Stack(DiscoveryImplicitOriginalDst(None), MAX_IN_FLIGHT)
                EXCEPT !.ready = {key[1][2]}])

\* Outbound::bind_service(key).  spawn_ok: whether the executor accepts the
\* Buffer's worker task (Buffer::new fails when it does not).
bind_service(key, spawn_ok) ==
    LET dest == key[1]
        resolve == IF dest[1] = "Hostname"
                   THEN NamedSvc
                   ELSE DiscoveryImplicitOriginalDst(Some(dest[2]))
    IN  IF ~spawn_ok THEN Err("BufferSpawnError::Outbound")
        ELSE Ok(Stack(resolve, MAX_IN_FLIGHT))

\* ------------------------------------------------------------------------
\* State
\* ------------------------------------------------------------------------

VARIABLES
    hist,             \* Histogram.0: the 26 counters
    hstatus,          \* "ok", or the panic that ended the task owning hist
    nObserved,        \* number of observe calls made in this behaviour
    lastMeasurement,  \* argument of the last observe call, after .into()
    lastIdx,          \* what position() returned in the last call
    dur,              \* the Duration handed to Latency::from
    asLatency,        \* Some(the Latency it returned), None before the call
    routes,           \* the router's cache: one entry per bound service
    bindCalls,        \* per key, the number of bind_service invocations
    bindErrs,         \* per key, how many of them returned an error
    reqs,             \* the explored requests: where each one is
    activeKeys,       \* the keys recognize() yields in this behaviour
    lastPoll,         \* the last Discovery::poll call: adapter, what the
                      \* wrapped call returned (None: not called), result
    anonReleased,     \* number of untracked requests that have finished
    request,          \* the request handed to destination()
    resolved,         \* Some(what destination() returned), None before
    inputs            \* per explored request, what recognize() reads of it

varsH == <<hist, hstatus, nObserved, lastMeasurement, lastIdx>>

varsL == <<dur, asLatency>>

varsO == <<routes, bindCalls, bindErrs, reqs, activeKeys, lastPoll,
           anonReleased>>

varsD == <<request, resolved, inputs>>

\* ------------------------------------------------------------------------
\* outbound.rs: normalize, host_port, destination, recognize
\* ------------------------------------------------------------------------

\* http::uri::Authority, as its accessors show it: host() is the host text,
\* port() is None or Some(port number).
Authority(host, port) == [host |-> host, port |-> port]

\* Host texts IpAddr::from_str accepts.
IpTexts == {"10.1.1.1", "10.1.1.2"}

\* Host texts dns::Name::normalize accepts.
DnsTexts == {"web"}

\* transport::Host
HostDnsName(name) == <<"DnsName", name>>

HostIp(ip) == <<"Ip", ip>>

\* transport::HostAndPort { host, port }
HostAndPort(host, port) == [host |-> host, port |-> port]

\* HostAndPort::normalize(authority, default_port): the host text is read
\* as an IP address, else as a DNS name, else the call fails; the port is
\* the authority's, else the default, else the call fails.
HostAndPort_normalize(a, default_port) ==
    LET port == IF a.port # None THEN a.port ELSE default_port
    IN  IF a.host \notin (IpTexts \cup DnsTexts) THEN Err("InvalidHost")
        ELSE IF port = None THEN Err("MissingPort")
        ELSE Ok(HostAndPort(IF a.host \in IpTexts THEN HostIp(a.host)
                            ELSE HostDnsName(a.host),
                            Unwrap(port)))

DEFAULT_PORT == 80

\* normalize without a default port.
normalize_no_default_port(authority) ==
    LET r == HostAndPort_normalize(authority, None)
    IN  IF IsErr(r) THEN None ELSE Some(r[2])

\* Outbound::normalize: HostAndPort::normalize(authority, Some(80)).ok()
normalize(authority) ==
    LET r == HostAndPort_normalize(authority, Some(DEFAULT_PORT))
    IN  IF IsErr(r) THEN None ELSE Some(r[2])

\* ctx::transport::Server: the listener's address and the connection's
\* captured original destination (None when nothing was captured).
ServerCtx(local, orig_dst) == [local |-> local, orig_dst |-> orig_dst]

\* What destination() reads of an http::Request: the URI's authority part
\* (None when the URI has none), the Host header (None when absent, an
\* Authority with an empty host text when its value is no authority), the
\* Arc<ctx::transport::Server> extension (None when not set), the version.
Request(uri_authority, host_header, server, version) ==
    [uri_authority |-> uri_authority,
     host_header |-> host_header,
     server |-> server,
     version |-> version]

\* h1::authority_from_host: the Host header's value parsed as an authority.
authority_from_host(req) ==
    IF req.host_header = None THEN None
    ELSE IF Unwrap(req.host_header).host = "" THEN None
    ELSE req.host_header

\* ctx::transport::Server::orig_dst_if_not_local
orig_dst_if_not_local(ctx) ==
    IF ctx.orig_dst = None THEN None
    ELSE IF Unwrap(ctx.orig_dst) = ctx.local THEN None
    ELSE ctx.orig_dst

\* bind::Protocol::detect
Protocol_detect(req) == IF req.version = "HTTP/2.0" THEN "Http2" ELSE "Http1"

\* host_port consulting the Host header before the URI.
host_port_host_header_first(req) ==
    LET h == authority_from_host(req)
        fromHost == IF h = None THEN None ELSE normalize(Unwrap(h))
    IN  IF fromHost # None THEN fromHost
        ELSE IF req.uri_authority = None THEN None
        ELSE normalize(Unwrap(req.uri_authority))

\* Outbound::host_port:
\*   authority_part().and_then(normalize)
\*       .or_else(|| authority_from_host(req).and_then(normalize))
host_port(req) ==
    LET fromUri == IF req.uri_authority = None THEN None
                   ELSE normalize(Unwrap(req.uri_authority))
    IN  IF fromUri # None THEN fromUri
        ELSE LET h == authority_from_host(req)
             IN  IF h = None THEN None ELSE normalize(Unwrap(h))

\* The None arm of destination: the Server extension's original destination
\* unless it is the listener itself.
OrigDstArm(req) ==
    IF req.server = None THEN None
    ELSE LET o == orig_dst_if_not_local(Unwrap(req.server))
         IN  IF o = None THEN None
             ELSE Some(ImplicitOriginalDst(Unwrap(o)))

\* destination reading the captured original destination without the
\* not-local test.
destination_any_orig_dst(req) ==
    LET hp == host_port(req)
    IN  IF hp = None
        THEN IF req.server = None THEN None
             ELSE IF Unwrap(req.server).orig_dst = None THEN None
             ELSE Some(ImplicitOriginalDst(Unwrap(Unwrap(req.server).orig_dst)))
        ELSE IF Unwrap(hp).host[1] = "DnsName"
        THEN Some(Hostname(DnsNameAndPort(Unwrap(hp).host[2], Unwrap(hp).port)))
        ELSE Some(ImplicitOriginalDst(SocketAddr(Unwrap(hp).host[2],
                                                 Unwrap(hp).port)))

\* destination preferring the captured original destination for an IP host.
destination_ip_prefers_orig_dst(req) ==
    LET hp == host_port(req)
    IN  IF hp = None THEN OrigDstArm(req)
        ELSE IF Unwrap(hp).host[1] = "DnsName"
        THEN Some(Hostname(DnsNameAndPort(Unwrap(hp).host[2], Unwrap(hp).port)))
        ELSE IF OrigDstArm(req) # None THEN OrigDstArm(req)
        ELSE Some(ImplicitOriginalDst(SocketAddr(Unwrap(hp).host[2],
                                                 Unwrap(hp).port)))

\* destination falling back, for a request without authority or original
\* destination, on the destination of the first bound service.
destination_follows_cache(req) ==
    LET hp == host_port(req)
    IN  IF hp = None
        THEN IF OrigDstArm(req) = None /\ routes # <<>>
             THEN Some(routes[1].key[1])
             ELSE OrigDstArm(req)
        ELSE IF Unwrap(hp).host[1] = "DnsName"
        THEN Some(Hostname(DnsNameAndPort(Unwrap(hp).host[2], Unwrap(hp).port)))
        ELSE Some(ImplicitOriginalDst(SocketAddr(Unwrap(hp).host[2],
                                                 Unwrap(hp).port)))

\* Outbound::destination
destination(req) ==
    LET hp == host_port(req)
    IN  IF hp = None THEN OrigDstArm(req)
        ELSE IF Unwrap(hp).host[1] = "DnsName"
        THEN Some(Hostname(DnsNameAndPort(Unwrap(hp).host[2], Unwrap(hp).port)))
        ELSE Some(ImplicitOriginalDst(SocketAddr(Unwrap(hp).host[2],
                                                 Unwrap(hp).port)))

\* Recognize::recognize: destination(req)?, then (dest, Protocol::detect(req))
recognize(req) ==
    LET dest == destination(req)
    IN  IF dest = None THEN None
        ELSE Some(<<Unwrap(dest), Protocol_detect(req)>>)

\* Number of requests followed individually.
MaxRequests == 2

\* Number of endpoint changes a naming-service subscription delivers.
MaxChanges == 3

\* Number of untracked in-flight requests that finish.
MaxAnonRelease == 1

ReqIds == 1 .. MaxRequests

NoKey == <<<<"NoDestination", "">>, "NoProtocol">>

NoAddr == SocketAddr("", 0)

\* A request the proxy has not received yet.
IdleReq ==
    [state |-> "idle", key |-> NoKey, inst |-> 0, endpoint |-> NoAddr,
     expired |-> FALSE]

\* No request: the value of the request variables outside the
\* specifications that resolve destinations.
NoRequest == Request(None, None, None, "")

IdleDuration == Duration(<<U32_ZERO, U32_ZERO>>, 0)

\* Number of observe calls explored per behaviour.
MaxObserve == 2

\* u32 measurements handed to observe: every bucket bound and values
\* between and beyond them.
Measurements ==
    {BUCKET_MAX_VALUES[i] : i \in Buckets}
        \cup {Latency(4001), Latency(5000), Latency(50001),
              <<Base - 1, Base - 2>>}

\* Whole seconds of the durations explored (u64 as <<hi32, lo32>>).
DurationSecs ==
    {<<U32_ZERO, FromNat(n)>> : n \in {0, 1, 50, 4294966, 4294967, 4294968}}
        \cup {<<U32_ZERO, <<Base - 1, Base - 2>>>>, <<U32_ZERO, U32_MAX>>,
              <<FromNat(1), U32_ZERO>>, <<FromNat(1), FromNat(1)>>,
              <<U32_MAX, U32_MAX>>}

\* Sub-second nanoseconds of the durations explored.
DurationNanos ==
    {0, 999999, 1000000, 1999999, 295000000, 295999999, 296000000,
     500000000, 999999999}

Durations == {Duration(s, n) : s \in DurationSecs, n \in DurationNanos}

\* Durations handed to observe: 0 ms, 1500 ms, one past every finite
\* bound, and one whose milliseconds do not fit a u32.
ObservedDurations ==
    {Duration(<<U32_ZERO, FromNat(0)>>, 999999),
     Duration(<<U32_ZERO, FromNat(1)>>, 500000000),
     Duration(<<U32_ZERO, FromNat(50)>>, 1000000),
     Duration(<<FromNat(1), U32_ZERO>>, 0)}

\* A histogram one of whose counters is one short of u32::MAX: the state
\* after 2^32 - 2 observations that fell into bucket i.
NearFull(i) == [HistogramNew EXCEPT ![i] = <<Base - 1, Base - 2>>]

InitHistograms == {HistogramNew, NearFull(NUM_BUCKETS - 1)}

\* The listener's own address and the contexts of the explored connections:
\* no original destination captured, the listener's own address captured,
\* another address captured.
ListenAddr == SocketAddr("127.0.0.1", 4140)

CtxNoOrigDst == ServerCtx(ListenAddr, None)

CtxLocalOrigDst == ServerCtx(ListenAddr, Some(ListenAddr))

CtxOrigDst == ServerCtx(ListenAddr, Some(SocketAddr("10.1.1.2", 80)))

\* URI authority parts explored: none; a DNS name without and with a port;
\* an IP literal with and without a port; a host text that is neither.
UriAuthorities ==
    {None,
     Some(Authority("web", None)),
     Some(Authority("web", Some(8080))),
     Some(Authority("10.1.1.1", Some(80))),
     Some(Authority("10.1.1.1", None)),
     Some(Authority("web_1", Some(80)))}

\* Host headers explored: none; a DNS name with a port; an IP literal; an
\* empty value; a host text that is neither a name nor an address.
HostHeaders ==
    {None,
     Some(Authority("web", Some(8080))),
     Some(Authority("10.1.1.2", Some(80))),
     Some(Authority("", None)),
     Some(Authority("web_1", None))}

ServerCtxs ==
    {None, Some(CtxNoOrigDst), Some(CtxLocalOrigDst), Some(CtxOrigDst)}

Versions == {"HTTP/1.1", "HTTP/2.0"}

\* The requests handed to destination().
Requests ==
    {Request(u, h, s, v) : u \in UriAuthorities, h \in HostHeaders,
                           s \in ServerCtxs, v \in Versions}

\* The requests sent through the router.
RouterRequests ==
    {Request(u, None, Some(s), v) :
        u \in {None, Some(Authority("web", None))},
        s \in {CtxLocalOrigDst, CtxOrigDst},
        v \in Versions}
      \cup {Request(None, Some(Authority("web", Some(8080))),
                    Some(CtxOrigDst), "HTTP/1.1")}

\* A cache entry of the router: the bound stack of `key` with what the
\* environment has told it so far.
RouteEntry(key, svc) ==
    [key |-> key,
     svc |-> svc,
     live |-> {},       \* addresses the change source has inserted, not removed
     nChanges |-> 0,    \* changes the source has delivered
     inserts |-> 0,     \* Insert results Discovery::poll has returned
     error |-> None,    \* the BindError Discovery::poll has returned
     nErrors |-> 0,     \* error results Discovery::poll has returned
     sampled |-> <<NoAddr, NoAddr>>,  \* candidates of a choice just made
     drained |-> FALSE, \* the balancer's last poll of the adapter: not-ready
     anon |-> 0]        \* untracked requests holding a slot

\* The entry of a service through which MAX_IN_FLIGHT - 1 untracked
\* requests have been admitted and are still waiting in its buffer.
LoadedEntry(key) ==
    LET e == RouteEntry(key, bind_service(key, TRUE)[2])
    IN  [e EXCEPT !.svc.curr = MAX_IN_FLIGHT - 1, !.anon = MAX_IN_FLIGHT - 1]

\* Initial states of the histogram specification.
InitHistogram ==
    /\ hist \in InitHistograms
    /\ hstatus = "ok"
    /\ nObserved = 0
    /\ lastMeasurement = None
    /\ lastIdx = None
    /\ dur = IdleDuration
    /\ asLatency = None
    /\ routes = <<>>
    /\ bindCalls = [k \in Keys |-> 0]
    /\ bindErrs = [k \in Keys |-> 0]
    /\ reqs = [r \in ReqIds |-> IdleReq]
    /\ activeKeys = {}
    /\ lastPoll = None
    /\ anonReleased = 0
    /\ request = NoRequest
    /\ resolved = None
    /\ inputs = [r \in ReqIds |-> NoRequest]

\* Initial states of the conversion specification.
InitLatency ==
    /\ hist = HistogramNew
    /\ hstatus = "ok"
    /\ nObserved = 0
    /\ lastMeasurement = None
    /\ lastIdx = None
    /\ dur \in Durations
    /\ asLatency = None
    /\ routes = <<>>
    /\ bindCalls = [k \in Keys |-> 0]
    /\ bindErrs = [k \in Keys |-> 0]
    /\ reqs = [r \in ReqIds |-> IdleReq]
    /\ activeKeys = {}
    /\ lastPoll = None
    /\ anonReleased = 0
    /\ request = NoRequest
    /\ resolved = None
    /\ inputs = [r \in ReqIds |-> NoRequest]

\* Initial state of the router specification: Outbound::new, nothing bound,
\* requests for every key.
InitRouter ==
    /\ hist = HistogramNew
    /\ hstatus = "ok"
    /\ nObserved = 0
    /\ lastMeasurement = None
    /\ lastIdx = None
    /\ dur = IdleDuration
    /\ asLatency = None
    /\ routes = <<>>
    /\ bindCalls = [k \in Keys |-> 0]
    /\ bindErrs = [k \in Keys |-> 0]
    /\ reqs = [r \in ReqIds |-> IdleReq]
    /\ activeKeys = Keys
    /\ lastPoll = None
    /\ anonReleased = 0
    /\ request = NoRequest
    /\ resolved = None
    /\ inputs = [r \in ReqIds |-> NoRequest]

\* The keys followed through their stack: one of each Destination variant.
ServiceKeys ==
    {<<Hostname(DnsNameAndPort("web", 80)), "Http1">>,
     <<ImplicitOriginalDst(SocketAddr("10.1.1.1", 80)), "Http2">>}

\* Initial states of the service specification: requests for one key, which
\* is not bound yet or, for one of the keys, bound and one request short of
\* its cap.
InitService ==
    /\ hist = HistogramNew
    /\ hstatus = "ok"
    /\ nObserved = 0
    /\ lastMeasurement = None
    /\ lastIdx = None
    /\ dur = IdleDuration
    /\ asLatency = None
    /\ \E k \in ServiceKeys :
           /\ activeKeys = {k}
           /\ \/ /\ routes = <<>>
                 /\ bindCalls = [x \in Keys |-> 0]
              \/ /\ k[1][1] = "ImplicitOriginalDst"
                 /\ routes = <<LoadedEntry(k)>>
                 /\ bindCalls = [x \in Keys |-> IF x = k THEN 1 ELSE 0]
    /\ bindErrs = [k \in Keys |-> 0]
    /\ reqs = [r \in ReqIds |-> IdleReq]
    /\ lastPoll = None
    /\ anonReleased = 0
    /\ request = NoRequest
    /\ resolved = None
    /\ inputs = [r \in ReqIds |-> NoRequest]

\* Initial states of the destination specification: one request, not yet
\* handed to destination().
InitDestination ==
    /\ hist = HistogramNew
    /\ hstatus = "ok"
    /\ nObserved = 0
    /\ lastMeasurement = None
    /\ lastIdx = None
    /\ dur = IdleDuration
    /\ asLatency = None
    /\ routes = <<>>
    /\ bindCalls = [k \in Keys |-> 0]
    /\ bindErrs = [k \in Keys |-> 0]
    /\ reqs = [r \in ReqIds |-> IdleReq]
    /\ activeKeys = {}
    /\ lastPoll = None
    /\ anonReleased = 0
    /\ request \in Requests
    /\ resolved = None
    /\ inputs = [r \in ReqIds |-> NoRequest]

\* Initial states of the recognition specification: Outbound::new, nothing
\* bound, and the requests that are going to arrive.
InitRecognize ==
    /\ hist = HistogramNew
    /\ hstatus = "ok"
    /\ nObserved = 0
    /\ lastMeasurement = None
    /\ lastIdx = None
    /\ dur = IdleDuration
    /\ asLatency = None
    /\ routes = <<>>
    /\ bindCalls = [k \in Keys |-> 0]
    /\ bindErrs = [k \in Keys |-> 0]
    /\ reqs = [r \in ReqIds |-> IdleReq]
    /\ activeKeys = Keys
    /\ lastPoll = None
    /\ anonReleased = 0
    /\ request = NoRequest
    /\ resolved = None
    /\ inputs \in [ReqIds -> RouterRequests]

\* One call of observe whose argument converts to `measurement`.
Observe(measurement) ==
    /\ hstatus = "ok"
    /\ nObserved < MaxObserve
    /\ \E r \in observe(hist, measurement) :
           /\ hist' = r.hist
           /\ hstatus' = r.status
           /\ lastIdx' = r.idx
    /\ nObserved' = nObserved + 1
    /\ lastMeasurement' = measurement
    /\ UNCHANGED <<varsL, varsO, varsD>>

\* observe(v) with a u32 or a Latency (impl From<u32> for Latency)
ObserveLatency == \E v \in Measurements : Observe(v)

\* observe(dur) with a Duration (impl From<Duration> for Latency)
ObserveDuration ==
    \E d \in ObservedDurations : Observe(LatencyFromDuration(d))

\* Latency::from(dur)
Convert ==
    /\ asLatency = None
    /\ asLatency' = Some(LatencyFromDuration(dur))
    /\ UNCHANGED <<dur, varsH, varsO, varsD>>

\* ------------------------------------------------------------------------
\* The router and the stack it binds per key
\* ------------------------------------------------------------------------

\* The router's lookup of `key` in its cache: the index of the entry, or 0.
Lookup(rts, key) ==
    LET hits == {i \in 1 .. Len(rts) : KeyEq(rts[i].key, key)}
    IN  IF hits = {} THEN 0 ELSE CHOOSE i \in hits : \A j \in hits : i <= j

\* A change applied to a set of addresses.
ApplyChange(set, res) ==
    IF res[1] = "Insert" THEN set \cup {res[2]}
    ELSE IF res[1] = "Remove" THEN set \ {res[2]}
    ELSE set

\* service.call(request) on entry i of the cache rts, which then becomes
\* the cache.  InFlightLimit::call reserves a slot, or the response fails
\* at once for lack of capacity; Timeout::call arms the deadline;
\* Buffer::call hands the request to the worker.
ServiceCall(r, key, i, rts) ==
    LET svc == rts[i].svc
        at(st) == [state |-> st, key |-> key, inst |-> i,
                   endpoint |-> NoAddr, expired |-> FALSE]
    IN  IF svc.curr >= svc.max
        THEN /\ routes' = rts
             /\ reqs' = [reqs EXCEPT ![r] = at("no_capacity")]
        ELSE /\ routes' = [rts EXCEPT ![i].svc.curr = @ + 1,
                                      ![i].svc.queue = Append(@, r)]
             /\ reqs' = [reqs EXCEPT ![r] = at("queued")]

\* Router::call for a request recognized as `key`: the cached service is
\* called; on a miss bind_service(key) is invoked and its service cached
\* and called, or its error returned to this request with nothing cached.
RouterCall(r, key) ==
    /\ reqs[r].state = "idle"
    /\ key \in activeKeys
    /\ IF Lookup(routes, key) # 0
       THEN /\ ServiceCall(r, key, Lookup(routes, key), routes)
            /\ UNCHANGED <<bindCalls, bindErrs>>
       ELSE \E spawn_ok \in BOOLEAN :
               LET bound == bind_service(key, spawn_ok)
               IN  /\ bindCalls' = [bindCalls EXCEPT ![key] = @ + 1]
                   /\ IF IsErr(bound)
                      THEN /\ bindErrs' = [bindErrs EXCEPT ![key] = @ + 1]
                           /\ reqs' = [reqs EXCEPT ![r] =
                                  [state |-> "route_error", key |-> key,
                                   inst |-> 0, endpoint |-> NoAddr,
                                   expired |-> FALSE]]
                           /\ UNCHANGED routes
                      ELSE /\ UNCHANGED bindErrs
                           /\ ServiceCall(r, key, Len(routes) + 1,
                                  Append(routes, RouteEntry(key, bound[2])))
    /\ UNCHANGED <<activeKeys, lastPoll, anonReleased, varsH, varsL, varsD>>

\* What the source wrapped by entry e's adapter can return to one call:
\* the subscription's poll of a NamedSvc, which reports a failure once, and
\* bind.bind(&addr) of an ImplicitOriginalDst.
SourceResults(e) ==
    IF e.svc.discover.kind = "NamedSvc"
    THEN {NotReady}
            \cup (IF e.error = None THEN {Err("closed"), Err("reset")}
                  ELSE {})
            \cup {Insert(a) : a \in {x \in Addrs \ e.live :
                                        e.nChanges < MaxChanges}}
            \cup {Remove(a) : a \in {x \in e.live :
                                        e.nChanges < MaxChanges}}
    ELSE {<<"Ok">>, Err("bind")}

RemoveFromQueue(q, r) == SelectSeq(q, LAMBDA x : x # r)

\* The Buffer's worker, holding a request, polls the balancer for readiness
\* and the balancer polls its Discovery adapter once and applies the result
\* to its endpoint set.  An error is the answer to the request the worker
\* holds, the one at the head of the queue, whose slot is released.
DiscoverPoll(i) ==
    /\ i \in 1 .. Len(routes)
    /\ routes[i].svc.curr > 0
    /\ \E inner \in SourceResults(routes[i]) :
          LET e == routes[i]
              p == DiscoveryPoll(e.svc.discover, inner)
              res == p.result
              \* what has happened to the endpoints themselves
              src == IF e.svc.discover.kind = "NamedSvc" THEN inner
                     ELSE IF e.svc.discover.opt # None /\ ~IsErr(inner)
                     THEN Insert(Unwrap(e.svc.discover.opt))
                     ELSE NotReady
              failing == IF IsErr(res) /\ e.svc.queue # <<>>
                         THEN {Head(e.svc.queue)}
                         ELSE {}
          IN  /\ routes' = [routes EXCEPT ![i] =
                     [e EXCEPT
                        !.svc = [e.svc EXCEPT
                                   !.discover = p.discover,
                                   !.ready = ApplyChange(@, res),
                                   !.queue = IF failing # {} THEN Tail(@)
                                             ELSE @,
                                   !.curr = @ - Cardinality(failing)],
                        !.live = ApplyChange(@, src),
                        !.nChanges = @ + (IF IsChange(src) THEN 1 ELSE 0),
                        !.inserts = @ + (IF res[1] = "Insert" THEN 1 ELSE 0),
                        !.error = IF IsErr(res) THEN Some(res) ELSE @,
                        !.nErrors = @ + (IF IsErr(res) THEN 1 ELSE 0),
                        !.sampled = <<NoAddr, NoAddr>>,
                        !.drained = (res = NotReady)]]
              /\ reqs' = [r \in ReqIds |->
                            IF r \in failing
                            THEN [reqs[r] EXCEPT !.state = "unavailable"]
                            ELSE reqs[r]]
              /\ lastPoll' = Some([inst |-> i, before |-> e.svc.discover,
                                   inner |-> IF e.svc.discover.kind = "NamedSvc"
                                                \/ e.svc.discover.opt # None
                                             THEN Some(inner) ELSE None,
                                   result |-> res])
    /\ UNCHANGED <<bindCalls, bindErrs, activeKeys, anonReleased, varsH,
                   varsL, varsD>>

\* The load estimate WithPeakEwma keeps of endpoint a of entry i: its
\* requests dispatched and not yet answered.
Load(i, a) ==
    Cardinality({r \in ReqIds : /\ reqs[r].inst = i
                                /\ reqs[r].state = "dispatched"
                                /\ reqs[r].endpoint = a})

\* The balancer's choice between the two candidates it sampled:
\* power-of-two-choices takes the one with the lower load estimate.
Choose(svc, i, s) ==
    IF svc.choose = "PowerOfTwoChoices"
    THEN IF Load(i, s[2]) < Load(i, s[1]) THEN s[2] ELSE s[1]
    ELSE s[1]

\* The waiting requests the balancer can be called with next: behind the
\* Buffer, the one its worker holds.
Drivable(svc) ==
    IF svc.buffer THEN {Head(svc.queue)}
    ELSE {svc.queue[n] : n \in 1 .. Len(svc.queue)}

\* The balancer, polled, is called with a waiting request.  With an empty
\* endpoint set the request fails for want of an endpoint and its slot is
\* released; otherwise the balancer samples two candidates of its set and
\* the request goes to the one it chooses.
Dispatch(i) ==
    /\ i \in 1 .. Len(routes)
    /\ routes[i].drained
    /\ routes[i].svc.queue # <<>>
    /\ \E r \in Drivable(routes[i].svc) :
          IF routes[i].svc.ready = {}
          THEN /\ reqs' = [reqs EXCEPT ![r].state = "no_endpoint"]
               /\ routes' = [routes EXCEPT
                      ![i].svc.queue = RemoveFromQueue(@, r),
                      ![i].svc.curr = @ - 1,
                      ![i].drained = FALSE]
          ELSE \E s \in routes[i].svc.ready \X routes[i].svc.ready :
                  /\ reqs' = [reqs EXCEPT
                         ![r].state = "dispatched",
                         ![r].endpoint = Choose(routes[i].svc, i, s)]
                  /\ routes' = [routes EXCEPT
                         ![i].svc.queue = RemoveFromQueue(@, r),
                         ![i].sampled = s,
                         ![i].drained = FALSE]
    /\ UNCHANGED <<bindCalls, bindErrs, activeKeys, lastPoll, anonReleased,
                   varsH, varsL, varsD>>

\* The endpoint's response arrives: the request completes and the
\* InFlightLimit's response future releases its slot.
Respond(r) ==
    /\ reqs[r].state = "dispatched"
    /\ reqs' = [reqs EXCEPT ![r].state = "done"]
    /\ routes' = [routes EXCEPT ![reqs[r].inst].svc.curr = @ - 1]
    /\ UNCHANGED <<bindCalls, bindErrs, activeKeys, lastPoll, anonReleased,
                   varsH, varsL, varsD>>

\* bind_timeout passes with no response to request r.  The Timeout layer
\* fails the request, its call is dropped and its slot released.
Expire(r) ==
    /\ reqs[r].state \in {"queued", "dispatched"}
    /\ ~reqs[r].expired
    /\ IF routes[reqs[r].inst].svc.timeout
       THEN /\ reqs' = [reqs EXCEPT ![r].state = "timeout",
                                    ![r].expired = TRUE]
            /\ routes' = [routes EXCEPT
                   ![reqs[r].inst].svc.curr = @ - 1,
                   ![reqs[r].inst].svc.queue = RemoveFromQueue(@, r)]
       ELSE /\ reqs' = [reqs EXCEPT ![r].expired = TRUE]
            /\ UNCHANGED routes
    /\ UNCHANGED <<bindCalls, bindErrs, activeKeys, lastPoll, anonReleased,
                   varsH, varsL, varsD>>

\* One of the untracked requests finishes and releases its slot.
AnonRelease(i) ==
    /\ i \in 1 .. Len(routes)
    /\ routes[i].anon > 0
    /\ anonReleased < MaxAnonRelease
    /\ routes' = [routes EXCEPT ![i].svc.curr = @ - 1, ![i].anon = @ - 1]
    /\ anonReleased' = anonReleased + 1
    /\ UNCHANGED <<bindCalls, bindErrs, reqs, activeKeys, lastPoll, varsH,
                   varsL, varsD>>

\* One call of destination(request).
Resolve ==
    /\ resolved = None
    /\ resolved' = Some(destination(request))
    /\ UNCHANGED <<request, inputs, varsH, varsL, varsO>>

\* Request r arrives at the router, which asks recognize() for its key:
\* without a key the request is not routed, with one the router is called.
Arrive(r) ==
    /\ reqs[r].state = "idle"
    /\ LET k == recognize(inputs[r])
       IN  IF k = None
           THEN /\ reqs' = [reqs EXCEPT ![r].state = "unrecognized"]
                /\ UNCHANGED <<routes, bindCalls, bindErrs, activeKeys,
                               lastPoll, anonReleased, varsH, varsL, varsD>>
           ELSE RouterCall(r, Unwrap(k))

NextH == ObserveLatency \/ ObserveDuration

NextL == Convert

NextRouter == \E r \in ReqIds, k \in Keys : RouterCall(r, k)

NextService ==
    \/ \E r \in ReqIds, k \in Keys : RouterCall(r, k)
    \/ \E i \in 1 .. MaxRequests : DiscoverPoll(i)
    \/ \E i \in 1 .. MaxRequests : Dispatch(i)
    \/ \E r \in ReqIds : Respond(r)
    \/ \E r \in ReqIds : Expire(r)
    \/ \E i \in 1 .. MaxRequests : AnonRelease(i)

NextDestination == Resolve

NextRecognize == \E r \in ReqIds : Arrive(r)

vars == <<varsH, varsL, varsO, varsD>>

\* The histogram under observe calls.
SpecHistogram == InitHistogram /\ [][NextH]_vars

\* The Duration -> Latency conversion on its own.
SpecLatency == InitLatency /\ [][NextL]_vars

\* The router binding services for the requests of several keys.
SpecRouter == InitRouter /\ [][NextRouter]_vars

\* One key's requests through the router and the stack bound for the key.
SpecService == InitService /\ [][NextService]_vars

\* destination() applied to one request.
SpecDestination == InitDestination /\ [][NextDestination]_vars

\* The router fed by recognize().
SpecRecognize == InitRecognize /\ [][NextRecognize]_vars

\* ------------------------------------------------------------------------
\* Properties of the histogram and of the conversion
\* ------------------------------------------------------------------------

\* C1: the 26 bucket bounds strictly increase from index 0 to index 25 and
\* the last bound is u32::MAX.
C1_BoundsStrictlyIncreasing ==
    /\ \A i \in DOMAIN hist :
           i + 1 \in DOMAIN hist =>
               Less(BUCKET_MAX_VALUES[i], BUCKET_MAX_VALUES[i + 1])
    /\ \A i \in DOMAIN hist :
           i + 1 \notin DOMAIN hist => BUCKET_MAX_VALUES[i] = U32_MAX

\* C2: after observe(v) with v the upper bound of bucket i, the counter
\* that was incremented is bucket i's own.
C2_BoundLandsInOwnBucket ==
    \A i \in Buckets :
        (nObserved > 0 /\ lastMeasurement = BUCKET_MAX_VALUES[i])
            => lastIdx = Some(i)

\* C3: observe always finds a bucket whose bound is >= the measurement (the
\* `expect` never fires); a measurement above 50,000, u32::MAX included, is
\* counted in the last bucket.
C3_ObserveFindsBucket ==
    nObserved > 0 =>
        /\ hstatus # "panic_expect"
        /\ lastIdx # None
        /\ Leq(lastMeasurement, BUCKET_MAX_VALUES[Unwrap(lastIdx)])
        /\ Less(Latency(50000), lastMeasurement)
               => lastIdx = Some(NUM_BUCKETS - 1)

C3_Witness ==
    /\ nObserved > 0
    /\ lastMeasurement = U32_MAX
    /\ lastIdx = Some(NUM_BUCKETS - 1)
    /\ hstatus = "ok"

\* Quotient and remainder of a u32 by a small divisor, by long division
\* over the two limbs.
DivMod(a, k) ==
    LET t == (a[1] % k) * Base + a[2]
    IN  [q |-> <<a[1] \div k, t \div k>>, r |-> t % k]

\* The duration's whole milliseconds are at most u32::MAX.
FitsU32(d) ==
    /\ d.secs[1] = U32_ZERO
    /\ \/ Less(d.secs[2], DivMod(U32_MAX, 1000).q)
       \/ /\ d.secs[2] = DivMod(U32_MAX, 1000).q
          /\ d.nanos \div 1000000 <= DivMod(U32_MAX, 1000).r

\* C4: Latency::from(dur) is min(floor(dur in ms), u32::MAX): a duration
\* whose milliseconds fit converts to exactly secs * 1000 + nanos / 10^6,
\* any other to u32::MAX.
C4_ConversionTruncatesAndSaturates ==
    asLatency # None =>
        IF FitsU32(dur)
        THEN DivMod(Unwrap(asLatency), 1000) =
                 [q |-> dur.secs[2], r |-> dur.nanos \div 1000000]
        ELSE Unwrap(asLatency) = U32_MAX

\* 4294967 s 296 ms is one millisecond more than u32::MAX.
C4_Witness ==
    /\ dur = Duration(<<U32_ZERO, FromNat(4294967)>>, 296000000)
    /\ asLatency = Some(U32_MAX)

\* C5: no bucket's count is lower after a step than before it.
C5_CountsNeverDecrease ==
    [][\A i \in Buckets : Leq(hist[i], hist'[i])]_vars

\* ------------------------------------------------------------------------
\* Properties of the discovery adapter, the stack and the router
\* ------------------------------------------------------------------------

Entries == 1 .. Len(routes)

IsImplicit(i) == routes[i].svc.discover.kind = "ImplicitOriginalDst"

\* The tracked requests holding a slot of entry i.
Holders(i) ==
    {r \in ReqIds : reqs[r].inst = i
                    /\ reqs[r].state \in {"queued", "dispatched"}}

\* The number of requests in flight through entry i.
InFlight(i) == routes[i].anon + Cardinality(Holders(i))

\* C6 as stated: an ImplicitOriginalDst adapter that has been polled has
\* emitted exactly one Insert.
C6_ExactlyOneInsert ==
    \A i \in Entries :
        (IsImplicit(i) /\ routes[i].svc.discover.opt = None)
            => routes[i].inserts = 1

\* C6, amended: an ImplicitOriginalDst adapter emits at most one Insert:
\* none before its first poll, one after it if the endpoint was constructed,
\* none ever if construction failed; a poll of an adapter whose slot is
\* already cleared returns not-ready.
C6_AtMostOneInsert ==
    /\ \A i \in Entries :
           IsImplicit(i) =>
               routes[i].inserts =
                   (IF routes[i].svc.discover.opt = None
                       /\ routes[i].error = None
                    THEN 1 ELSE 0)
    /\ (/\ lastPoll # None
        /\ Unwrap(lastPoll).before.kind = "ImplicitOriginalDst"
        /\ Unwrap(lastPoll).before.opt = None)
           => Unwrap(lastPoll).result = NotReady

\* The adapter has emitted its Insert and a later poll returned not-ready.
C6_Witness ==
    /\ lastPoll # None
    /\ Unwrap(lastPoll).before = DiscoveryImplicitOriginalDst(None)
    /\ Unwrap(lastPoll).result = NotReady
    /\ routes[Unwrap(lastPoll).inst].inserts = 1

\* C7: the balancer's endpoint set is the set the changes delivered so far
\* give when applied in the order delivered, and a request is dispatched
\* only to an endpoint of that set.
C7_ChosenEndpointIsLive ==
    /\ [](\A i \in Entries : routes[i].svc.ready = routes[i].live)
    /\ [][\A r \in ReqIds :
             (reqs[r].state = "queued" /\ reqs'[r].state = "dispatched")
                 => /\ reqs'[r].endpoint \in routes[reqs[r].inst].live
                    /\ reqs'[r].endpoint \in routes'[reqs[r].inst].live]_vars

\* A request dispatched after one address was inserted and removed again.
C7_Witness ==
    \E r \in ReqIds :
        /\ reqs[r].state = "dispatched"
        /\ routes[reqs[r].inst].nChanges = 3
        /\ routes[reqs[r].inst].live = {reqs[r].endpoint}

\* C8: at most MAX_IN_FLIGHT requests are in flight per key, and a request
\* that arrives when MAX_IN_FLIGHT are in flight is rejected in the same
\* step, nothing queued and no slot taken.
C8_InFlightNeverExceedsCap ==
    /\ [](\A i \in Entries : InFlight(i) <= MAX_IN_FLIGHT)
    /\ [][\A r \in ReqIds :
             (/\ reqs[r].state = "idle"
              /\ reqs'[r].state # "idle"
              /\ Lookup(routes, reqs'[r].key) # 0
              /\ InFlight(Lookup(routes, reqs'[r].key)) >= MAX_IN_FLIGHT)
                 => /\ reqs'[r].state = "no_capacity"
                    /\ routes' = routes]_vars

\* A request was rejected and the cap's worth of requests is in flight.
C8_Witness ==
    \E r \in ReqIds :
        /\ reqs[r].state = "no_capacity"
        /\ InFlight(reqs[r].inst) = MAX_IN_FLIGHT

\* C9: a request whose deadline passed with no response has failed with a
\* timeout; the step in which it fails releases exactly its slot and leaves
\* every other request as it was, and a dispatched request can complete.
C9_TimeoutReleasesOnlyItsSlot ==
    /\ [](\A r \in ReqIds : reqs[r].expired => reqs[r].state = "timeout")
    /\ [](\A r \in ReqIds :
             reqs[r].state = "dispatched" => ENABLED Respond(r))
    /\ [][\A r \in ReqIds :
             (reqs[r].state # "timeout" /\ reqs'[r].state = "timeout")
                 => /\ reqs[r].state \in {"queued", "dispatched"}
                    /\ routes'[reqs[r].inst].svc.curr
                           = routes[reqs[r].inst].svc.curr - 1
                    /\ \A q \in ReqIds \ {r} : reqs'[q] = reqs[q]]_vars

\* One request timed out, another on the same key got its response.
C9_Witness ==
    \E r, q \in ReqIds :
        /\ reqs[r].state = "timeout"
        /\ reqs[q].state = "done"
        /\ reqs[q].inst = reqs[r].inst

Served == {r \in ReqIds : reqs[r].inst # 0}

\* C11: a bound balancer is never shared by two distinct routing keys.  Two
\* requests whose keys differ, be it only in the Protocol, are served by
\* distinct instances, and every instance serves the one key it was bound
\* for, with its own endpoint set.
C11_NoBalancerSharedAcrossKeys ==
    /\ \A r \in Served, q \in Served :
           reqs[r].key # reqs[q].key => reqs[r].inst # reqs[q].inst
    /\ \A r \in Served :
           /\ reqs[r].key = Unwrap(recognize(inputs[r]))
           /\ routes[reqs[r].inst].key = reqs[r].key

\* Two requests with the same Destination and different Protocols have been
\* routed, each to its own instance.
C11_Witness ==
    \E r \in Served, q \in Served :
        /\ reqs[r].key[1] = reqs[q].key[1]
        /\ reqs[r].key[2] # reqs[q].key[2]
        /\ reqs[r].inst # reqs[q].inst

\* The destination a URI authority names: its host, and its port or 80.
AuthorityPort(a) == IF a.port = None THEN 80 ELSE Unwrap(a.port)

\* C12 as stated: for any request with a URI authority "host:port",
\* destination() returns Hostname{host, port}, and for "host" alone
\* Hostname{host, 80}.
C12_UriAuthorityGivesHostname ==
    (resolved # None /\ request.uri_authority # None) =>
        LET a == Unwrap(request.uri_authority)
        IN  Unwrap(resolved) =
                Some(Hostname(DnsNameAndPort(a.host, AuthorityPort(a))))

\* C12: for any request whose URI authority is "host:port" with host a DNS
\* name, destination() returns Hostname{host, port} with exactly that host
\* and port, and for "host" alone it returns Hostname{host, 80}.
C12_DnsAuthorityGivesHostname ==
    (/\ resolved # None
     /\ request.uri_authority # None
     /\ Unwrap(request.uri_authority).host \in DnsTexts) =>
        LET a == Unwrap(request.uri_authority)
        IN  Unwrap(resolved) =
                Some(Hostname(DnsNameAndPort(a.host, AuthorityPort(a))))

\* destination() has answered a request whose URI authority is a DNS name
\* without a port.
C12_Witness ==
    /\ resolved # None
    /\ request.uri_authority # None
    /\ Unwrap(request.uri_authority).host \in DnsTexts
    /\ Unwrap(request.uri_authority).port = None
    /\ request.host_header # None

\* C13: for a request with neither a URI authority nor a Host header,
\* destination() returns ImplicitOriginalDst(original destination) exactly
\* when the connection has a captured original destination that is not the
\* listener's own address, and none in every other such case.
C13_OrigDstOnlyWhenCapturedAndNotLocal ==
    (/\ resolved # None
     /\ request.uri_authority = None
     /\ request.host_header = None) =>
        IF /\ request.server # None
           /\ Unwrap(request.server).orig_dst # None
           /\ Unwrap(Unwrap(request.server).orig_dst)
                  # Unwrap(request.server).local
        THEN Unwrap(resolved) =
                 Some(ImplicitOriginalDst(
                          Unwrap(Unwrap(request.server).orig_dst)))
        ELSE Unwrap(resolved) = None

\* destination() has answered a request without authority and Host header
\* on a connection whose original destination is another address.
C13_Witness ==
    /\ resolved # None
    /\ request.uri_authority = None
    /\ request.host_header = None
    /\ request.server = Some(CtxOrigDst)
    /\ Unwrap(resolved) # None

\* The requests that have arrived at the router.
Arrived == {r \in ReqIds : reqs[r].state # "idle"}

\* What destination() returned for an arrived request, as the router saw it.
DestinationOf(r) ==
    IF reqs[r].state = "unrecognized" THEN None ELSE Some(reqs[r].key[1])

\* Two requests agree in URI authority, Host header and connection context.
SameResolutionInputs(a, b) ==
    /\ a.uri_authority = b.uri_authority
    /\ a.host_header = b.host_header
    /\ a.server = b.server

AsDestination(hp) ==
    IF hp.host[1] = "Ip"
    THEN ImplicitOriginalDst(SocketAddr(hp.host[2], hp.port))
    ELSE Hostname(DnsNameAndPort(hp.host[2], hp.port))

\* The URI authority is present and normalizes.
UriYields(req) ==
    req.uri_authority # None /\ normalize(Unwrap(req.uri_authority)) # None

\* The Host header is present, is an authority and normalizes.
HostYields(req) ==
    /\ authority_from_host(req) # None
    /\ normalize(Unwrap(authority_from_host(req))) # None

\* C18: destination() takes the first source that yields a normalized host
\* and port: the URI authority whenever it is well formed, the Host header
\* only when the URI authority is absent or malformed, the captured
\* original destination only when neither yields one.
C18_FirstMatchOrder ==
    resolved # None =>
        Unwrap(resolved) =
            IF UriYields(request)
            THEN Some(AsDestination(
                          Unwrap(normalize(Unwrap(request.uri_authority)))))
            ELSE IF HostYields(request)
            THEN Some(AsDestination(
                          Unwrap(normalize(Unwrap(request.host_header)))))
            ELSE OrigDstArm(request)

\* destination() has answered from the URI authority a request that also
\* carries a Host header naming something else and a captured original
\* destination.
C18_Witness ==
    /\ resolved # None
    /\ UriYields(request)
    /\ HostYields(request)
    /\ request.host_header # request.uri_authority
    /\ request.server = Some(CtxOrigDst)
    /\ Unwrap(resolved) =
           Some(AsDestination(Unwrap(normalize(Unwrap(request.uri_authority)))))

\* C19: when the normalized host is a literal IP address, destination()
\* returns ImplicitOriginalDst built from that address and the normalized
\* port, whatever the connection's captured original destination is; when
\* it is a DNS name, Hostname.
C19_IpLiteralGivesImplicitOriginalDst ==
    (resolved # None /\ host_port(request) # None) =>
        LET hp == Unwrap(host_port(request))
        IN  IF hp.host[1] = "Ip"
            THEN Unwrap(resolved) =
                     Some(ImplicitOriginalDst(SocketAddr(hp.host[2], hp.port)))
            ELSE Unwrap(resolved) =
                     Some(Hostname(DnsNameAndPort(hp.host[2], hp.port)))

\* destination() has answered a request naming an IP literal on a
\* connection whose captured original destination is another address.
C19_Witness ==
    /\ resolved # None
    /\ request.uri_authority # None
    /\ Unwrap(request.uri_authority).host \in IpTexts
    /\ request.server = Some(CtxOrigDst)
    /\ Unwrap(resolved) =
           Some(ImplicitOriginalDst(
                    SocketAddr(Unwrap(request.uri_authority).host, 80)))

\* ------------------------------------------------------------------------
\* Properties of dispatch: empty endpoint sets, choice, serialization
\* ------------------------------------------------------------------------

\* The requests waiting in the buffer of some entry.
Waiting ==
    {r \in ReqIds : \E i \in Entries :
                        \E n \in DOMAIN routes[i].svc.queue :
                            routes[i].svc.queue[n] = r}

\* C15: whenever the balancer is called with a request while the key's live
\* endpoint set is empty (every endpoint removed, or the one
\* ImplicitOriginalDst endpoint never constructed), the request fails with
\* the no-endpoint condition and releases its slot; the failure is final,
\* the request is not put back to wait or dispatched later.
C15_EmptySetFailsDispatch ==
    /\ [][\A r \in ReqIds :
             (/\ reqs[r].state = "queued"
              /\ reqs'[r].state \in {"dispatched", "no_endpoint"}
              /\ routes[reqs[r].inst].live = {})
                 => /\ reqs'[r].state = "no_endpoint"
                    /\ routes'[reqs[r].inst].svc.curr
                           = routes[reqs[r].inst].svc.curr - 1]_vars
    /\ [][\A r \in ReqIds :
             reqs[r].state = "no_endpoint" => reqs'[r] = reqs[r]]_vars
    /\ [](\A r \in ReqIds : reqs[r].state = "no_endpoint" => r \notin Waiting)

\* A request for an ImplicitOriginalDst key whose endpoint failed to
\* construct has failed for want of an endpoint.
C15_Witness ==
    \E r \in ReqIds :
        /\ reqs[r].state = "no_endpoint"
        /\ IsImplicit(reqs[r].inst)
        /\ routes[reqs[r].inst].error # None

\* C16: with load estimates L1 < L2 in an endpoint set of two, the balancer
\* picks the lower-loaded endpoint for the strict majority of the equally
\* likely pairs of candidates, sampled with or without repetition; and in
\* every single choice the endpoint a request is dispatched to is one of
\* the two candidates sampled and no candidate has a lower load estimate.
C16_PowerOfTwoChoices ==
    /\ [](\A i \in Entries : \A a \in Addrs, b \in Addrs :
             (routes[i].svc.ready = {a, b} /\ Load(i, a) < Load(i, b)) =>
                 LET pairs == {a, b} \X {a, b}
                     distinct == {s \in pairs : s[1] # s[2]}
                     lower(S) == {s \in S : Choose(routes[i].svc, i, s) = a}
                 IN  /\ 2 * Cardinality(lower(pairs)) > Cardinality(pairs)
                     /\ 2 * Cardinality(lower(distinct))
                            > Cardinality(distinct))
    /\ [][\A r \in ReqIds :
             (reqs[r].state = "queued" /\ reqs'[r].state = "dispatched") =>
                 LET i == reqs[r].inst
                     s == routes'[i].sampled
                 IN  /\ s \in routes[i].svc.ready \X routes[i].svc.ready
                     /\ reqs'[r].endpoint \in {s[1], s[2]}
                     /\ Load(i, reqs'[r].endpoint) <= Load(i, s[1])
                     /\ Load(i, reqs'[r].endpoint) <= Load(i, s[2])]_vars

\* Two different candidates were sampled for a request while the other
\* request was outstanding at one of them, and the two requests are now at
\* different endpoints.
C16_Witness ==
    \E r \in ReqIds, q \in ReqIds :
        /\ reqs[r].state = "dispatched"
        /\ reqs[q].state = "dispatched"
        /\ reqs[r].inst = reqs[q].inst
        /\ reqs[r].endpoint # reqs[q].endpoint
        /\ routes[reqs[r].inst].sampled[1] # routes[reqs[r].inst].sampled[2]

\* C17: for one routing key the balancer is driven for one caller at a
\* time, the request at the head of the buffer's queue: only that request
\* is dispatched or failed by the balancer, and no other request changes in
\* that step.  Requests already dispatched complete independently: the
\* response of each one can arrive whatever the others are doing, and its
\* arrival changes no other request and no queue.
C17_OneDriverPerKey ==
    /\ [][\A r \in ReqIds :
             (/\ reqs[r].state = "queued"
              /\ reqs'[r].state \in {"dispatched", "no_endpoint",
                                     "unavailable"})
                 => /\ r = Head(routes[reqs[r].inst].svc.queue)
                    /\ \A q \in ReqIds \ {r} : reqs'[q] = reqs[q]]_vars
    /\ [][\A r \in ReqIds :
             (reqs[r].state = "dispatched" /\ reqs'[r].state = "done")
                 => /\ \A q \in ReqIds \ {r} : reqs'[q] = reqs[q]
                    /\ routes'[reqs[r].inst].svc.queue
                           = routes[reqs[r].inst].svc.queue
                    /\ routes'[reqs[r].inst].svc.ready
                           = routes[reqs[r].inst].svc.ready]_vars
    /\ [](\A r \in ReqIds, q \in ReqIds :
             (reqs[r].state = "dispatched" /\ reqs[q].state = "dispatched")
                 => (ENABLED Respond(r) /\ ENABLED Respond(q)))

\* Of two requests dispatched on the same key, one has its response while
\* the other is still outstanding.
C17_Witness ==
    \E r \in ReqIds, q \in ReqIds :
        /\ r < q
        /\ reqs[r].inst = reqs[q].inst
        /\ reqs[r].state = "dispatched"
        /\ reqs[q].state = "done"

\* C20: when a pending ImplicitOriginalDst adapter is polled and
\* constructing the endpoint fails, that poll returns BindError::External
\* with the pending address and clears the slot; from then on every poll
\* returns not-ready, so the adapter has reported one error, no Insert, and
\* the balancer's set stays empty.
C20_FailedConstructionIsFinal ==
    /\ \A i \in Entries :
           (IsImplicit(i) /\ routes[i].error # None) =>
               /\ routes[i].error
                      = Some(BindErrorExternal(routes[i].key[1][2]))
               /\ routes[i].svc.discover.opt = None
               /\ routes[i].nErrors = 1
               /\ routes[i].inserts = 0
               /\ routes[i].svc.ready = {}
    /\ (/\ lastPoll # None
        /\ Unwrap(lastPoll).before.kind = "ImplicitOriginalDst"
        /\ IsErr(Unwrap(lastPoll).result)) =>
           /\ Unwrap(lastPoll).before.opt # None
           /\ Unwrap(lastPoll).result
                  = BindErrorExternal(Unwrap(Unwrap(lastPoll).before.opt))
    /\ (/\ lastPoll # None
        /\ IsImplicit(Unwrap(lastPoll).inst)
        /\ routes[Unwrap(lastPoll).inst].error # None
        /\ ~IsErr(Unwrap(lastPoll).result)) =>
           /\ Unwrap(lastPoll).before.opt = None
           /\ Unwrap(lastPoll).result = NotReady

\* An adapter whose construction failed has been polled again and has
\* answered not-ready.
C20_Witness ==
    /\ lastPoll # None
    /\ IsImplicit(Unwrap(lastPoll).inst)
    /\ routes[Unwrap(lastPoll).inst].error # None
    /\ Unwrap(lastPoll).before.opt = None
    /\ Unwrap(lastPoll).result = NotReady

\* ------------------------------------------------------------------------
\* Properties of the NamedSvc adapter, of bind_service, of observe
\* ------------------------------------------------------------------------

\* C21: a NamedSvc adapter hands every result of its subscription that is
\* no error (not-ready, Insert, Remove) through unchanged, one result per
\* poll and so in the subscription's order: the balancer's set is the set
\* the subscription has described.  Every failure of the subscription,
\* whatever its cause, comes out as BindError::Internal, never as
\* BindError::External, and the adapter itself is left as it was.
C21_NamedSvcForwards ==
    /\ (lastPoll # None /\ Unwrap(lastPoll).before.kind = "NamedSvc") =>
           LET p == Unwrap(lastPoll)
           IN  /\ p.inner # None
               /\ IF IsErr(Unwrap(p.inner))
                  THEN p.result = BindErrorInternal
                  ELSE p.result = Unwrap(p.inner)
               /\ p.result[1] \in {"NotReady", "Insert", "Remove", "Err"}
               /\ IsErr(p.result) => p.result[2] # "External"
               /\ routes[p.inst].svc.discover = p.before
    /\ \A i \in Entries :
           ~IsImplicit(i) =>
               /\ routes[i].svc.ready = routes[i].live
               /\ routes[i].error \in {None, Some(BindErrorInternal)}

\* A subscription that had an endpoint inserted and removed again has
\* failed, and the adapter has answered BindError::Internal.
C21_Witness ==
    /\ lastPoll # None
    /\ Unwrap(lastPoll).before.kind = "NamedSvc"
    /\ Unwrap(lastPoll).inner = Some(Err("reset"))
    /\ Unwrap(lastPoll).result = BindErrorInternal
    /\ routes[Unwrap(lastPoll).inst].nChanges >= 2
    /\ routes[Unwrap(lastPoll).inst].live = {}

\* C22: bind_service constructs no endpoint.  The service it returns has an
\* empty endpoint set and, for an ImplicitOriginalDst key, an adapter that
\* holds the address as pending; an endpoint enters the set only by a poll
\* of the adapter that returns Insert.  A call of bind_service either
\* returns such a service or, the buffering stage not constructed, a bind
\* error and no service: nothing is cached and the request gets the error.
C22_BindConstructsNoEndpoint ==
    /\ [][Len(routes') > Len(routes) =>
             LET e == routes'[Len(routes')]
             IN  /\ Len(routes') = Len(routes) + 1
                 /\ e.svc.ready = {}
                 /\ e.live = {}
                 /\ e.inserts = 0
                 /\ e.svc.discover =
                        IF e.key[1][1] = "ImplicitOriginalDst"
                        THEN DiscoveryImplicitOriginalDst(Some(e.key[1][2]))
                        ELSE NamedSvc
                 /\ bindCalls'[e.key] = bindCalls[e.key] + 1
                 /\ bindErrs' = bindErrs]_vars
    /\ [][\A k \in Keys :
             bindCalls'[k] # bindCalls[k] =>
                 \/ /\ Len(routes') = Len(routes) + 1
                    /\ routes'[Len(routes')].key = k
                    /\ bindErrs'[k] = bindErrs[k]
                 \/ /\ routes' = routes
                    /\ bindErrs'[k] = bindErrs[k] + 1
                    /\ \E r \in ReqIds :
                           /\ reqs[r].state = "idle"
                           /\ reqs'[r].state = "route_error"
                           /\ reqs'[r].inst = 0]_vars
    /\ [][\A i \in Entries :
             (routes[i].svc.ready = {} /\ routes'[i].svc.ready # {}) =>
                 /\ lastPoll' # None
                 /\ Unwrap(lastPoll').inst = i
                 /\ Unwrap(lastPoll').result[1] = "Insert"
                 /\ routes'[i].svc.ready = {Unwrap(lastPoll').result[2]}]_vars
    /\ [](\A i \in Entries :
             (IsImplicit(i) /\ routes[i].svc.discover.opt # None) =>
                 /\ routes[i].svc.ready = {}
                 /\ routes[i].svc.discover.opt = Some(routes[i].key[1][2]))

\* A first bind of an ImplicitOriginalDst key has failed and its request
\* got the error; a second one has returned a service whose adapter still
\* holds the address as pending, with a request waiting in it.
C22_Witness ==
    \E i \in Entries, r \in ReqIds, q \in ReqIds :
        /\ IsImplicit(i)
        /\ routes[i].svc.discover.opt # None
        /\ routes[i].svc.ready = {}
        /\ bindErrs[routes[i].key] = 1
        /\ bindCalls[routes[i].key] = 2
        /\ reqs[r].state = "route_error"
        /\ reqs[q].state = "queued"
        /\ reqs[q].inst = i

\* C23: each call of observe increases the counter of exactly one bucket by
\* exactly one and leaves the other 25 counters as they were (so that the
\* counters of a histogram that started at zero sum to the number of
\* calls).
C23_ObserveIncrementsOneBucket ==
    [][nObserved' = nObserved + 1 =>
          \E i \in Buckets :
              /\ checked_add(hist[i], FromNat(1)) = Some(hist'[i])
              /\ \A j \in Buckets \ {i} : hist'[j] = hist[j]]_vars

====
